---- MODULE Spec2Model ----
(***************************************************************************)
(* Task queue (src/src/queue_db.py), job store (src/src/job_store.py),     *)
(* search index writes (src/src/search_index.py) and the worker iteration  *)
(* (src/src/worker.py) of the ingestion engine.                            *)
(*                                                                         *)
(* Every SQL statement that is committed on its own is one atomic step;    *)
(* the statements of lease_one are separate steps because the code issues  *)
(* them outside a common transaction.  time.time() is a read of the        *)
(* variable clock; two callers that read it without a Tick in between see  *)
(* the same value.  The specifications at the end run the same actions in  *)
(* different deployments (number of worker processes, number of files).    *)
(***************************************************************************)
EXTENDS Integers, FiniteSets, Sequences, TLC

\* ---- bounds of the model ----
MaxTasks == 2
MaxPeriods == 2
MaxAttempts == 2
MaxDocs == 2
MaxKills == 1
MaxPages == 2
MaxRepeats == 5
MaxSide == 4

\* ---- program constants ----
VisibilityTimeout == 300

NULL == "NULL"
Tenants == {"a", "b"}
TenantOrNull == Tenants \cup {NULL}
Workers == {"w1", "w2"}
TaskIds == 1..MaxTasks
\* the instants the clock is observed at: the start of each visibility period
\* and one second later
Instants == {k * VisibilityTimeout + r : k \in 0..MaxPeriods, r \in 0..1}

\* kinds of intent_json stored with a task: none (or a JSON object, which
\* run_once reads without error), and a JSON value that is not an object
\* (list, string, number)
IntentKinds == {"none", "nondict"}

\* exception texts (str(exc)) that matter
ValidationError == "validation failed"
OtherError == "error"

VARIABLES
    clock,      \* wall clock read by time.time() and unixepoch()
    incoming,   \* files not yet submitted (upload clients, incoming directory)
    ntasks,     \* number of rows of table tasks (ids 1..ntasks)
    tasks,      \* table tasks: id -> row
    jobs,       \* table jobs: the job created together with task id
    index,      \* downstream stores, per task id
    wk,         \* per worker process: position and locals of run_once / lease_one
    wcfg,       \* per worker process: settings (tenant filter, allow_unscoped)
    adminRows,  \* rows listed by rerun_flagged and not yet reset
    manifest,   \* table file_manifest, rows in rowid order
    uploads,    \* per API server process: position and locals of upload_file
    hist        \* history of the run (not program state)

vars == <<clock, incoming, ntasks, tasks, jobs, index, wk, wcfg, adminRows,
          manifest, uploads, hist>>

Min(a, b) == IF a < b THEN a ELSE b

\* ---- table rows ----
NoRow == [status |-> "none", tenant |-> NULL, created_at |-> 0, leased_at |-> -1,
          attempts |-> 0, last_error |-> NULL, intent |-> "none", job_id |-> 0,
          file_path |-> "incoming"]
NoJob == [status |-> "none", last_error |-> NULL, tenant |-> NULL,
          callback_url |-> FALSE, callback_attempts |-> 0]
NoIndex == [staged |-> 0, docs |-> 0, geo |-> 0, json |-> 0, md |-> 0]
\* the extracted text of a document, as far as the pipeline looks at it:
\* its length, the words in it, and whether it holds coordinates
Vocabulary == {"Treaty", "treaty", "map"}
\* (for a scanned PDF also: ocr, what the OCR of each page came to, and pages,
\* the parts of the combined output)
\* (for an image read by the Hunyuan backend also: vlm, the requests made,
\* and chars, the characters of the output; for a text with a coordinate
\* pair also: geo, the point, an AOI feature and what the membership test says)
NoText == [len |-> 0, words |-> {}, coords |-> FALSE, ocr |-> <<>>, pages |-> <<>>,
           vlm |-> [requests |-> <<>>, entities |-> ""], chars |-> <<>>,
           geo |-> [lat |-> 0, lon |-> 0, feature |-> [type |-> NULL], inside |-> FALSE]]
\* a text long enough to index, with or without coordinates
Document(has_coords) == [NoText EXCEPT !.len = 100, !.coords = has_coords]

\* the OCR of one rendered page: it returns the text of the page, or every
\* backend fails on it (pytesseract raises, Hunyuan raises or is not
\* configured), or the step around the OCR raises (img.save of the rendered
\* page, reading the image back)
PageResult == {"text", "backend", "error"}
PageResults == UNION {[1..n -> PageResult] : n \in 1..MaxPages}

\* text_extraction._ocr_image: a failure of the backends is caught and the
\* bytes of the image file, decoded, are returned as the text of the page
ocr_image(result, i) ==
    IF result = "text" THEN [kind |-> "text", page |-> i]
    ELSE [kind |-> "raw image", page |-> i]

\* text_extraction.extract_text, OCR fallback for a PDF without embedded text
\* (156-191): parts are joined in page order; an exception inside the loop
\* over the pages leaves it, and the bytes of the PDF are returned instead
extract_text(results) ==
    [Document(FALSE) EXCEPT
        !.ocr = results,
        !.pages = IF \E i \in 1..Len(results) : results[i] = "error"
                  THEN << [kind |-> "raw pdf", page |-> 0] >>
                  ELSE [i \in 1..Len(results) |-> ocr_image(results[i], i)]]

\* scripts/smart_ocr_parallel.py ocr_pdf_parallel: asyncio.gather with
\* return_exceptions, an exception becomes "[Page i OCR failed]"
ocr_pdf_parallel(results) ==
    [i \in 1..Len(results) |->
        IF results[i] = "text" THEN [kind |-> "text", page |-> i]
        ELSE [kind |-> "[Page OCR failed]", page |-> i]]
\* ---- hunyuan_ocr: the requests of one call of extract_text_with_hunyuan ----
\* environment of the process: PUKAIST_HUNYUAN_OCR_BASE_URL set (HTTP
\* endpoint) or not (in-process client), PUKAIST_OCR_AUTO_CONTEXT,
\* PUKAIST_OCR_CONTEXT set, PUKAIST_OCR_SELF_CORRECT
OcrEnvs == [base_url : BOOLEAN, auto_context : BOOLEAN,
            manual_context : BOOLEAN, self_correct : BOOLEAN]
\* the prompt argument of the caller
NoPrompt == [template |-> NULL, context |-> ""]
CallerPrompts == {NoPrompt, [template |-> "handwritten", context |-> ""]}
\* what the model answers: the entities of the scout pass (maybe none) and
\* whether the transcription starts like a summary
OcrReplies == [entities : {"", "Kamloops"}, summary : BOOLEAN]

\* a sampling parameter that the request does not carry
Unset == -1

_DEFAULT_OCR_PROMPT == [template |-> "default", context |-> ""]
_SCOUT_OCR_PROMPT == [template |-> "scout", context |-> ""]
_SELF_CORRECTION_PROMPT == [template |-> "self_correction", context |-> ""]
_CONTEXTUAL_OCR_PROMPT_TEMPLATE(context) == [template |-> "contextual", context |-> context]

get_ocr_prompt(env, context) ==
    IF env.manual_context THEN _CONTEXTUAL_OCR_PROMPT_TEMPLATE("PUKAIST_OCR_CONTEXT")
    ELSE IF context # "" THEN _CONTEXTUAL_OCR_PROMPT_TEMPLATE(context)
    ELSE _DEFAULT_OCR_PROMPT

\* client.chat.completions.create(..., temperature=0.0, extra_body={...});
\* the repetition penalty in hundredths
create(pass, prompt, top_k, repetition_penalty, max_tokens) ==
    [pass |-> pass, prompt |-> prompt, top_k |-> top_k,
     repetition_penalty |-> repetition_penalty, max_tokens |-> max_tokens,
     backend |-> "http", temperature |-> 0]

\* HunyuanOcrClient.extract_text with the sampling_params of __init__:
\* SamplingParams(temperature=0, max_tokens=max_tokens, repetition_penalty=1.0)
HunyuanOcrClient_extract_text(pass, prompt) ==
    [pass |-> pass,
     prompt |-> IF prompt = NoPrompt THEN _DEFAULT_OCR_PROMPT ELSE prompt,
     top_k |-> Unset, repetition_penalty |-> 100, max_tokens |-> 16384,
     backend |-> "native", temperature |-> 0]

extract_text_with_hunyuan(env, prompt, reply) ==
    LET scouted == prompt = NoPrompt /\ env.auto_context
        scout == IF ~scouted THEN <<>>
                 ELSE IF env.base_url
                      THEN << create("scout", _SCOUT_OCR_PROMPT, 1, Unset, 512) >>
                      ELSE << HunyuanOcrClient_extract_text("scout", _SCOUT_OCR_PROMPT) >>
        entities == IF scouted THEN reply.entities ELSE ""
        effective_prompt ==
            IF scouted THEN get_ocr_prompt(env, entities)
            ELSE IF prompt # NoPrompt THEN prompt
            ELSE get_ocr_prompt(env, "")
        strict == IF reply.summary
                  THEN << create("strict", _DEFAULT_OCR_PROMPT, 1, 100, 8192) >>
                  ELSE <<>>
        correction == IF env.self_correct
                      THEN << create("self_correct", _SELF_CORRECTION_PROMPT, 1, 105, 16384) >>
                      ELSE <<>>
    IN [requests |->
            IF env.base_url
            THEN scout \o << create("transcribe", effective_prompt, 1, 100, 8192) >>
                       \o strict \o correction
            ELSE scout \o << HunyuanOcrClient_extract_text("transcribe", prompt) >>,
        entities |-> entities]

\* ---- hunyuan_ocr._clean_repeated_substrings ----
\* re.sub(r'(.)\1{15,}', r'\1\1\1', text): a character followed by
\* MinBackrefs or more copies of itself, a run of LongRun or more equal
\* characters, is cut to three
MinBackrefs == 15
LongRun == MinBackrefs + 1
\* the second pass leaves a text shorter than this alone
MinCleanLength == 1000
\* repeats of the trailing substring from which it is trimmed
MinRepeats == 5

\* position i is in a run of at least LongRun equal characters
InLongRun(text, i) ==
    \E k \in (i - LongRun + 1)..i :
        /\ k >= 1
        /\ k + LongRun - 1 <= Len(text)
        /\ \A m \in k..(k + LongRun - 1) : text[m] = text[i]

\* the first pass: of a long run the first three characters stay
single_character_pass(text) ==
    LET Keep(i) ==
            \/ i <= 3
            \/ text[i - 1] # text[i] \/ text[i - 2] # text[i] \/ text[i - 3] # text[i]
            \/ ~InLongRun(text, i)
        kept == SelectSeq([i \in 1..Len(text) |-> i], Keep)
    IN [j \in 1..Len(kept) |-> text[kept[j]]]

\* the while loop of the second pass: the number of copies of the last
\* `length` characters that end the text, counted from 0-based index i down
RECURSIVE count_repeats(_, _, _)
count_repeats(text, length, i) ==
    IF i >= 0 /\ \A m \in 1..length : text[i + m] = text[Len(text) - length + m]
    THEN 1 + count_repeats(text, length, i - length)
    ELSE 0

\* the second pass: the shortest trailing substring of length 2..n/10 that
\* is repeated MinRepeats times or more is cut down to one copy
phrase_pass(text) ==
    LET n == Len(text)
        hits == {length \in 2..(n \div 10) :
                    count_repeats(text, length, n - length) >= MinRepeats}
        first == CHOOSE length \in hits : \A l \in hits : length <= l
    IN IF n < MinCleanLength \/ hits = {} THEN text
       ELSE SubSeq(text, 1, n - first * (count_repeats(text, first, n - first) - 1))

_clean_repeated_substrings(text) == phrase_pass(single_character_pass(text))

\* outputs of the model: a page of text that does not repeat (its last
\* character occurs once), long or short, followed by up to MaxRepeats
\* copies of one unit and up to MaxRepeats copies of another
Page(long) ==
    [i \in 1..(IF long THEN MinCleanLength ELSE 10) |->
        IF i = (IF long THEN MinCleanLength ELSE 10) THEN "#"
        ELSE IF i % 2 = 1 THEN "x" ELSE "y"]
Units == {<<"a", "b">>, <<"c", "a", "b">>, [i \in 1..LongRun |-> "a"]}
RECURSIVE Repeat(_, _)
Repeat(unit, k) == IF k = 0 THEN <<>> ELSE unit \o Repeat(unit, k - 1)
RawOutputs ==
    {Page(long) \o Repeat(u, p) \o Repeat(v, q) :
        long \in BOOLEAN, u \in Units, v \in Units, p \in 0..MaxRepeats, q \in 0..MaxRepeats}

\* ---- geo_context: membership of a point in an AOI feature ----
\* ray casting over the edges of one ring, a list of <<lon, lat>> pairs; the
\* test lon < (x2 - x1) * (lat - y1) / (y2 - y1 + 1e-12) + x1 is made in
\* integers (y2 # y1 where it is made; on the grid below the two sides are
\* never within 1e-12 of each other)
Crosses(lat, lon, a, b) ==
    LET x1 == a[1]
        y1 == a[2]
        x2 == b[1]
        y2 == b[2]
    IN /\ (y1 > lat) # (y2 > lat)
       /\ IF y2 > y1 THEN (lon - x1) * (y2 - y1) < (x2 - x1) * (lat - y1)
                     ELSE (lon - x1) * (y2 - y1) > (x2 - x1) * (lat - y1)

_point_in_ring(lat, lon, ring) ==
    LET n == Len(ring)
        crossings == {i \in 1..n : Crosses(lat, lon, ring[i], ring[(i % n) + 1])}
    IN n >= 3 /\ Cardinality(crossings) % 2 = 1

_point_in_feature(lat, lon, feature) ==
    IF feature.type = "Polygon"
    THEN feature.coordinates # <<>> /\ _point_in_ring(lat, lon, feature.coordinates[1])
    ELSE IF feature.type = "MultiPolygon"
    THEN \E k \in 1..Len(feature.coordinates) :
            /\ feature.coordinates[k] # <<>>
            /\ _point_in_ring(lat, lon, feature.coordinates[k][1])
    ELSE FALSE

\* AOI features: a square of side 2 * MaxSide, alone or with a rectangular
\* hole, as a Polygon or as the only polygon of a MultiPolygon; corners at
\* even coordinates, points at odd ones
Rect(x1, y1, x2, y2) == << <<x1, y1>>, <<x1, y2>>, <<x2, y2>>, <<x2, y1>>, <<x1, y1>> >>
Exterior == Rect(0, 0, 2 * MaxSide, 2 * MaxSide)
Corners == {c \in (1..(MaxSide - 1)) \X (1..(MaxSide - 1)) \X
                  (1..(MaxSide - 1)) \X (1..(MaxSide - 1)) :
                c[1] < c[3] /\ c[2] < c[4]}
Holes == {Rect(2 * c[1], 2 * c[2], 2 * c[3], 2 * c[4]) : c \in Corners}
Rings == {<<Exterior>>} \cup {<<Exterior, hole>> : hole \in Holes}
Features ==
    {[type |-> "Polygon", coordinates |-> rings] : rings \in Rings}
    \cup {[type |-> "MultiPolygon", coordinates |-> <<rings>>] : rings \in Rings}
Coordinates == {2 * k + 1 : k \in -1..MaxSide}

\* the membership test of build_geo_context for one point of the document
\* and one AOI feature
geo_context(lat, lon, feature) ==
    [lat |-> lat, lon |-> lon, feature |-> feature,
     inside |-> _point_in_feature(lat, lon, feature)]

IdleWorker == [pc |-> "idle", now |-> 0, exp |-> 0, expAt |-> -1, best |-> 0,
               row |-> 0, exc |-> NULL, text |-> NoText, stage |-> "none",
               calls |-> {}, posts |-> {}, depth |-> 0]
\* a worker process that is not part of the deployment
OffWorker == [IdleWorker EXCEPT !.pc = "off"]

Exists(t) == t \in 1..ntasks

\* the last call of queue_db.complete / queue_db.flag made by a client of the
\* module other than the worker (kept in hist)
NoCall == [op |-> "none", id |-> 0, tenant |-> NULL]

\* the tenant predicate of lease_one's WHERE clauses
TenantMatch(t, tenant_id, allow_unscoped) ==
    \/ tenant_id = NULL
    \/ tasks[t].tenant = tenant_id
    \/ allow_unscoped /\ tasks[t].tenant = NULL

\* a tenant predicate under which a NULL argument matches every row
SameTenantOrAny(row_tenant, tenant_id) == tenant_id = NULL \/ row_tenant = tenant_id

\* the tenant predicate of complete / flag / job_store.set_status:
\* (tenant_id IS NULL AND ? IS NULL) OR tenant_id = ?
SameTenant(row_tenant, tenant_id) == row_tenant = tenant_id

\* SELECT id FROM tasks WHERE status='pending' AND <tenant> ORDER BY created_at LIMIT 1
\* (rows of equal created_at come out in rowid order); 0 when there is none
PendingMatching(tenant_id, allow_unscoped) ==
    {t \in 1..ntasks : tasks[t].status = "pending" /\ TenantMatch(t, tenant_id, allow_unscoped)}
OldestPending(tenant_id, allow_unscoped) ==
    LET S == PendingMatching(tenant_id, allow_unscoped) IN
    IF S = {} THEN 0
    ELSE CHOOSE t \in S : \A u \in S :
            \/ tasks[t].created_at < tasks[u].created_at
            \/ tasks[t].created_at = tasks[u].created_at /\ t <= u

\* SELECT * FROM tasks WHERE status='leased' AND leased_at = ? (first row in rowid order)
LeasedAt(now) == {t \in 1..ntasks : tasks[t].status = "leased" /\ tasks[t].leased_at = now}
Readback(now) ==
    LET S == LeasedAt(now) IN
    IF S = {} THEN 0 ELSE CHOOSE t \in S : \A u \in S : t <= u

\* the scan with the comparison turned round: leases younger than the timeout
ExpiredMatchingYounger(now, tenant_id, allow_unscoped) ==
    {t \in 1..ntasks : /\ tasks[t].status = "leased"
                       /\ tasks[t].leased_at > now - VisibilityTimeout
                       /\ TenantMatch(t, tenant_id, allow_unscoped)}

\* SELECT id FROM tasks WHERE status='leased' AND leased_at < ? AND <tenant> ORDER BY leased_at LIMIT 1
ExpiredMatching(now, tenant_id, allow_unscoped) ==
    {t \in 1..ntasks : /\ tasks[t].status = "leased"
                       /\ tasks[t].leased_at < now - VisibilityTimeout
                       /\ TenantMatch(t, tenant_id, allow_unscoped)}
OldestExpired(now, tenant_id, allow_unscoped) ==
    LET S == ExpiredMatching(now, tenant_id, allow_unscoped) IN
    IF S = {} THEN 0
    ELSE CHOOSE t \in S : \A u \in S :
            \/ tasks[t].leased_at < tasks[u].leased_at
            \/ tasks[t].leased_at = tasks[u].leased_at /\ t <= u

\* settings of the worker processes: tenant_filter (worker_tenant_id or
\* default_tenant), worker_allow_unscoped, and whether the process runs
\* (also: the model settings, the webhook token, and PUKAIST_MOVE_PROCESSED
\* of the environment of the process)
\* the model settings as Settings.load leaves them without environment
\* variables and project file
Offline == [summary_enabled |-> TRUE, llm_forensic_enabled |-> FALSE,
            llm_insights_enabled |-> FALSE, llm_offline |-> TRUE, llm_mode |-> "sync",
            prefilter_min_chars |-> 0, prefilter_keywords |-> {}]
Strict(tn) == [tenant |-> tn, allow |-> FALSE, on |-> TRUE, llm |-> Offline,
               webhook_token |-> NULL, move_processed |-> FALSE]
Shared(tn) == [tenant |-> tn, allow |-> TRUE, on |-> TRUE, llm |-> Offline,
               webhook_token |-> NULL, move_processed |-> FALSE]
NotRunning == [tenant |-> NULL, allow |-> TRUE, on |-> FALSE, llm |-> Offline,
               webhook_token |-> NULL, move_processed |-> FALSE]

\* ---- table file_manifest ----
\* API server processes that share the queue database
Servers == {"s1", "s2"}
IdleUpload == [pc |-> "idle", tenant |-> NULL, response |-> "none"]
\* sha256 of the uploaded bytes: every other upload brings new bytes (the
\* number of its task stands for their hash)
SameContent == 0
NoContent == -1

\* rows of file_manifest with the given hash and tenant (tenant NULL: the
\* rows whose tenant_id IS NULL)
ManifestRows(sha256, tenant_id) ==
    {i \in 1..Len(manifest) :
        manifest[i].sha256 = sha256 /\ manifest[i].tenant = tenant_id}

\* queue_db.find_manifest: the row of the tenant, else the row without
\* tenant; 0 when there is none
find_manifest(sha256, tenant_id) ==
    LET own == IF tenant_id # NULL THEN ManifestRows(sha256, tenant_id) ELSE {}
        unscoped == ManifestRows(sha256, NULL)
    IN IF own # {} THEN CHOOSE i \in own : \A k \in own : i <= k
       ELSE IF unscoped # {} THEN CHOOSE i \in unscoped : \A k \in unscoped : i <= k
       ELSE 0

\* queue_db.upsert_manifest: INSERT ... ON CONFLICT(sha256, tenant_id) DO
\* UPDATE; UNIQUE(sha256, tenant_id) of SCHEMA holds NULLs to be distinct, so
\* a row without tenant never conflicts
upsert_manifest(sha256, tenant_id) ==
    IF tenant_id # NULL /\ ManifestRows(sha256, tenant_id) # {}
    THEN manifest
    ELSE Append(manifest, [sha256 |-> sha256, tenant |-> tenant_id])

\* the empty queue of a deployment with the given worker settings; a worker
\* without settings is not running
InitWith(files, settings) ==
    /\ clock = 0
    /\ incoming = files
    /\ ntasks = 0
    /\ tasks = [t \in TaskIds |-> NoRow]
    /\ jobs = [t \in TaskIds |-> NoJob]
    /\ index = [t \in TaskIds |-> NoIndex]
    /\ wcfg = settings
    /\ wk = [w \in Workers |-> IF settings[w].on THEN IdleWorker ELSE OffWorker]
    /\ adminRows = {}
    /\ manifest = <<>>
    /\ uploads = [c \in Servers |-> IdleUpload]
    /\ hist = [flagged |-> [t \in TaskIds |-> FALSE], kills |-> 0, last |-> NoCall,
               sha256 |-> [t \in TaskIds |-> NoContent]]

\* ---- time ----
Tick(t) ==
    /\ t > clock
    /\ clock' = t
    /\ UNCHANGED <<manifest, uploads, incoming, ntasks, tasks, jobs, index, wk, wcfg, adminRows, hist>>

\* ---- producers of tasks ----
\* queue_db.enqueue: INSERT with status 'pending', attempts 0, created_at unixepoch()
enqueue(job_id, tenant_id, intent) ==
    /\ incoming > 0
    /\ ntasks < MaxTasks
    /\ incoming' = incoming - 1
    /\ ntasks' = ntasks + 1
    /\ tasks' = [tasks EXCEPT ![ntasks + 1] =
                    [NoRow EXCEPT !.status = "pending", !.tenant = tenant_id,
                                  !.created_at = clock, !.intent = intent,
                                  !.job_id = job_id]]

\* job_store.create_job for the task about to be enqueued
create_job(callback_url, tenant_id) ==
    jobs' = [jobs EXCEPT ![ntasks + 1] = [NoJob EXCEPT !.status = "pending",
                                                       !.tenant = tenant_id,
                                                       !.callback_url = callback_url]]

\* routes/upload.py upload_file: job and task carry the caller's tenant; intent
\* is any valid JSON; callback_url says whether the caller gave a webhook
upload_file(tenant_id, intent, callback_url) ==
    /\ manifest' = upsert_manifest(ntasks + 1, tenant_id)
    /\ create_job(callback_url, tenant_id)
    /\ enqueue(ntasks + 1, tenant_id, intent)
    /\ hist' = [hist EXCEPT !.sha256[ntasks + 1] = ntasks + 1]
    /\ UNCHANGED <<uploads, clock, index, wk, wcfg, adminRows>>

\* upload_file for a file whose bytes are those of SameContent, dedupe and
\* enqueue at their defaults (true), by API server process c, up to the
\* dedupe check (100-115): a manifest row found answers the request with
\* deduped, nothing stored or enqueued
upload_file_find(c, tenant_id) ==
    /\ uploads[c].pc = "idle"
    /\ incoming > 0
    /\ uploads' = [uploads EXCEPT ![c] =
                    IF find_manifest(SameContent, tenant_id) # 0
                    THEN [pc |-> "idle", tenant |-> tenant_id, response |-> "deduped"]
                    ELSE [pc |-> "store", tenant |-> tenant_id, response |-> "none"]]
    /\ UNCHANGED <<clock, incoming, ntasks, tasks, jobs, index, wk, wcfg, adminRows,
                   manifest, hist>>

\* the rest of that request (117-142): upsert_manifest, create_job, enqueue
upload_file_store(c) ==
    /\ uploads[c].pc = "store"
    /\ manifest' = upsert_manifest(SameContent, uploads[c].tenant)
    /\ create_job(FALSE, uploads[c].tenant)
    /\ enqueue(ntasks + 1, uploads[c].tenant, "none")
    /\ hist' = [hist EXCEPT !.sha256[ntasks + 1] = SameContent]
    /\ uploads' = [uploads EXCEPT ![c].pc = "idle", ![c].response = "enqueued"]
    /\ UNCHANGED <<clock, index, wk, wcfg, adminRows>>

\* scripts/intake_scan.py scan_and_enqueue: the job is created without a tenant,
\* the task with settings.default_tenant
scan_and_enqueue(default_tenant) ==
    /\ create_job(FALSE, NULL)
    /\ enqueue(ntasks + 1, default_tenant, "none")
    /\ UNCHANGED <<manifest, uploads, clock, index, wk, wcfg, adminRows, hist>>

\* queue_db.import_tasks_from_tsv (scripts/queue_admin.py import), one line of
\* the file: a task without tenant and intent for the job the line names
import_tasks_from_tsv(job_id) ==
    /\ enqueue(job_id, NULL, "none")
    /\ UNCHANGED <<manifest, uploads, clock, jobs, index, wk, wcfg, adminRows, hist>>

\* ---- queue_db.lease_one, one step per statement ----
Others == <<clock, incoming, ntasks, jobs, index, wcfg, adminRows, manifest, uploads, hist>>

\* now = time.time(), on entry from run_once and on every recursive call
lease_one_now(w) ==
    /\ wk[w].pc \in {"idle", "begin"}
    /\ wk' = [wk EXCEPT ![w] =
                IF wk[w].pc = "idle"
                THEN [IdleWorker EXCEPT !.pc = "claim", !.now = clock]
                ELSE [wk[w] EXCEPT !.pc = "claim", !.now = clock]]
    /\ UNCHANGED <<manifest, uploads, tasks, Others>>

\* UPDATE tasks SET status='leased', leased_at=now, attempts=attempts+1
\*   WHERE id = (oldest matching pending row); commit
lease_one_claim(w) ==
    /\ wk[w].pc = "claim"
    /\ LET t == OldestPending(wcfg[w].tenant, wcfg[w].allow) IN
       /\ tasks' = IF t = 0 THEN tasks
                   ELSE [tasks EXCEPT ![t].status = "leased",
                                      ![t].leased_at = wk[w].now,
                                      ![t].attempts = Min(@ + 1, MaxAttempts)]
       /\ wk' = [wk EXCEPT ![w].pc = "readback", ![w].best = t]
    /\ UNCHANGED Others

\* row = SELECT ... WHERE status='leased' AND leased_at = now; return row if any.
\* run_once then reads the row and the intent before its try block
\* (worker.py 151-165): an intent that is not a JSON object raises there.
lease_one_readback(w) ==
    /\ wk[w].pc = "readback"
    /\ LET r == Readback(wk[w].now) IN
       wk' = [wk EXCEPT ![w].row = r,
                        ![w].best = 0,
                        ![w].depth = IF r = 0 THEN @ ELSE 0,
                        ![w].exc = IF r # 0 /\ tasks[r].intent = "nondict" THEN OtherError ELSE NULL,
                        ![w].pc = IF r = 0 THEN "scan"
                                  ELSE IF tasks[r].intent = "nondict" THEN "terminated"
                                  ELSE "work"]
    /\ UNCHANGED <<manifest, uploads, tasks, Others>>

\* expired = SELECT id ... WHERE status='leased' AND leased_at < now - timeout ...;
\* return None when there is none
lease_one_scan(w) ==
    /\ wk[w].pc = "scan"
    /\ LET e == OldestExpired(wk[w].now, wcfg[w].tenant, wcfg[w].allow) IN
       wk' = [wk EXCEPT ![w] =
                IF e = 0 THEN IdleWorker
                ELSE [wk[w] EXCEPT !.exp = e, !.expAt = tasks[e].leased_at,
                                   !.pc = "recycle"]]
    /\ UNCHANGED <<manifest, uploads, tasks, Others>>

\* UPDATE tasks SET status='pending' WHERE id = expired.id; commit; recurse
lease_one_recycle(w) ==
    /\ wk[w].pc = "recycle"
    /\ tasks' = [tasks EXCEPT ![wk[w].exp].status = "pending"]
    /\ wk' = [wk EXCEPT ![w].pc = "begin", ![w].exp = 0, ![w].expAt = -1,
                        ![w].depth = Min(@ + 1, MaxAttempts)]
    /\ UNCHANGED Others

\* ---- worker.run_once after the lease ----
HandlerPcs == {"flag", "jobflag"}

\* job_store.set_status(job_id, status, last_error, tenant_id=row tenant): the
\* UPDATE matches only a job whose tenant equals the task's tenant
set_status(t, status, last_error) ==
    LET j == tasks[t].job_id IN
    IF j # 0 /\ jobs[j].status # "none" /\ SameTenant(jobs[j].tenant, tasks[t].tenant)
    THEN [jobs EXCEPT ![j].status = status, ![j].last_error = last_error]
    ELSE jobs

\* worker._send_callback 392-394: job_store.get_job(job_id, tenant_id=row
\* tenant) finds the job (by id alone for a falsy tenant) and it has a
\* callback_url
HasCallback(t) ==
    LET j == tasks[t].job_id IN
    /\ j # 0
    /\ jobs[j].status # "none"
    /\ tasks[t].tenant = NULL \/ jobs[j].tenant = tasks[t].tenant
    /\ jobs[j].callback_url

\* job_store.record_callback_status: UPDATE jobs SET callback_attempts =
\* callback_attempts + 1, last_callback_status=? WHERE id=?
record_callback_status(js, j) ==
    [js EXCEPT ![j].callback_attempts = Min(@ + 1, MaxAttempts)]

\* json.dumps(obj, separators=(item_separator, key_separator)) of a flat
\* object given as a sequence of <<key, value>> pairs: the text as a sequence
\* of tokens
RECURSIVE dumps_items(_, _)
dumps_items(obj, separators) ==
    IF obj = <<>> THEN <<>>
    ELSE <<obj[1][1], separators[2], obj[1][2]>>
         \o (IF Len(obj) > 1 THEN <<separators[1]>> ELSE <<>>)
         \o dumps_items(Tail(obj), separators)
dumps(obj, separators) == <<"{">> \o dumps_items(obj, separators) \o <<"}">>

\* separators=(",", ":") of worker.py 412, and the separators json.dumps uses
\* when none are given, as requests does for its json= argument
CompactSeparators == <<",", ":">>
DefaultSeparators == <<", ", ": ">>

\* hmac.new(key, msg, hashlib.sha256).hexdigest(): equal digests for equal key
\* and message only
hmac_hexdigest(key, msg) == <<key, msg>>

\* the payload of worker.py 396-409 (the fields that vary in the model)
Payload(t, status, error) ==
    << <<"job_id", ToString(tasks[t].job_id)>>, <<"task_id", ToString(t)>>,
       <<"status", status>>, <<"error", IF error = NULL THEN "null" ELSE error>> >>

NoSignature == [scheme |-> "none", sent |-> <<>>]

\* worker.py 410-419: the signature is computed over json.dumps(payload,
\* separators=(",", ":")); requests.post(url, json=payload, headers=headers)
\* transmits its own serialisation of payload; token is the header
\* X-Pukaist-Token (414), NULL when the header is not sent
Request(t, status, error, webhook_token) ==
    [status |-> status,
     token |-> webhook_token,
     body |-> dumps(Payload(t, status, error), DefaultSeparators),
     signature |-> IF webhook_token = NULL THEN NoSignature
                   ELSE [scheme |-> "sha256=",
                         sent |-> hmac_hexdigest(webhook_token,
                                     dumps(Payload(t, status, error), CompactSeparators))]]

\* scripts/webhook_receiver.py verify_signature(body, token, signature)
verify_signature(body, token, signature) ==
    IF token = NULL THEN TRUE
    ELSE IF signature.scheme # "sha256=" THEN FALSE
    ELSE signature.sent = hmac_hexdigest(token, body)

\* worker._send_callback(job_id, task_id, ..., status, ...): one POST, whose
\* status code or exception text is recorded on the job
send_callback(js, t) ==
    IF HasCallback(t) THEN record_callback_status(js, tasks[t].job_id) ELSE js

\* the statements of the try block up to queue_db.complete, in program order;
\* "none" stands for no failure
Stages == <<"processing", "extract", "validate", "summary", "forensic", "index",
            "embeddings", "places", "insights", "relevancy", "geo", "geotags",
            "emit", "none">>
StageNames == {Stages[i] : i \in 1..Len(Stages)}
Rank(stage) == CHOOSE i \in 1..Len(Stages) : Stages[i] = stage
\* the statements that are not enrichment
Statements == {"processing", "extract", "validate", "index", "geo", "emit", "none"}
\* the enrichment sub-stages, and those whose failure is caught where it
\* happens: by a try/except of run_once (forensic 208-212, embeddings 252-261,
\* relevancy 285-289, geo tags 300-315) or inside the model client (summary,
\* insights).  Place suggestions (263-277) and add_geo_points (290-298) are
\* plain statements of the outer try block.
EnrichmentStages == {"summary", "forensic", "embeddings", "places", "insights",
                     "relevancy", "geo", "geotags"}
Fenced == {"summary", "forensic", "embeddings", "insights", "relevancy", "geotags"}

\* str.lower on the words of the vocabulary
Lower(word) == IF word = "Treaty" THEN "treaty" ELSE word

\* prefilter.should_use_llm(text, metadata, settings) without overrides
should_use_llm(text, settings) ==
    IF settings.prefilter_min_chars # 0 /\ text.len < settings.prefilter_min_chars
    THEN FALSE
    ELSE IF /\ settings.prefilter_keywords # {}
            /\ ~ \E kw \in settings.prefilter_keywords :
                    \E word \in text.words : Lower(kw) = Lower(word)
         THEN FALSE
         ELSE TRUE

\* the calls of the remote model made by a run of the try block that gets
\* past the statements ranked below k: llm.summarize (202-205),
\* llm.analyze_forensic (206-212), llm.extract_insights (279-283); the adapter
\* returns without a request when llm_offline is set
PaidCalls(k, text, settings) ==
    {c \in {"summary", "forensic", "insights"} :
        /\ k > Rank(c)
        /\ ~ settings.llm_offline
        /\ settings.llm_mode = "sync"
        /\ \/ c = "summary" /\ settings.summary_enabled /\ should_use_llm(text, settings)
           \/ c = "forensic" /\ settings.llm_forensic_enabled
           \/ c = "insights" /\ settings.llm_insights_enabled}

\* queue_db.update_task_path(task_id, file_path, tenant_id):
\*   UPDATE tasks SET file_path=? WHERE id=? [AND tenant_id=?]
update_task_path(t, file_path, tenant_id) ==
    IF Exists(t) /\ (tenant_id = NULL \/ tasks[t].tenant = tenant_id)
    THEN [tasks EXCEPT ![t].file_path = file_path]
    ELSE tasks

\* worker._maybe_move_processed_file, called at the end of the try block:
\* with PUKAIST_MOVE_PROCESSED on, a file that is still where it was
\* submitted is moved to the Processed directory and the task row follows
maybe_move_processed_file(w, t) ==
    IF wcfg[w].move_processed /\ tasks[t].file_path = "incoming"
    THEN update_task_path(t, "Processed", tasks[t].tenant)
    ELSE tasks

\* worker.py 166-330: job processing (168), _process_task writes the staged
\* text (169), validate_record (199-201), the model calls, add_document (231),
\* the enrichment, add_geo_points (290), _emit_outputs (316).  stop names the
\* statement that fails and text is what _process_task extracted; a failure
\* that is caught where it happens lets the run go on, any other one raises
\* to the handler after the writes before it have been committed.
run_once_try(w, stop, text) ==
    /\ wk[w].pc = "work"
    /\ LET t == wk[w].row
           raised == IF stop \in Fenced THEN "none" ELSE stop
           k == Rank(raised) IN
       /\ tasks' = IF raised = "none" THEN maybe_move_processed_file(w, t) ELSE tasks
       /\ jobs' = IF k > Rank("processing") THEN set_status(t, "processing", NULL) ELSE jobs
       /\ index' = [index EXCEPT ![t] =
                       [staged |-> IF k > Rank("extract") THEN 1 ELSE @.staged,
                        docs |-> IF k > Rank("index") THEN Min(@.docs + 1, MaxDocs) ELSE @.docs,
                        geo |-> IF k > Rank("geo") /\ text.coords
                                THEN Min(@.geo + 1, MaxDocs) ELSE @.geo,
                        json |-> IF k > Rank("emit") THEN 1 ELSE @.json,
                        md |-> IF k > Rank("emit") THEN Min(@.md + 1, MaxDocs) ELSE @.md]]
       /\ wk' = [wk EXCEPT ![w].pc = IF raised = "none" THEN "complete" ELSE "flag",
                           ![w].exc = IF raised = "none" THEN NULL
                                      ELSE IF raised = "validate" THEN ValidationError
                                      ELSE OtherError,
                           ![w].text = IF k > Rank("extract") THEN text ELSE NoText,
                           ![w].stage = stop,
                           ![w].calls = PaidCalls(k, text, wcfg[w].llm)]
    /\ UNCHANGED <<manifest, uploads, clock, incoming, ntasks, wcfg, adminRows, hist>>

\* queue_db.complete without its UPDATE
complete_nothing(t, tenant_id) ==
    tasks' = tasks

\* queue_db.complete(task_id, tenant_id): UPDATE ... SET status='done'
\*   WHERE id=? AND tenant matches
complete(t, tenant_id) ==
    tasks' = IF Exists(t) /\ SameTenant(tasks[t].tenant, tenant_id)
             THEN [tasks EXCEPT ![t].status = "done"]
             ELSE tasks

\* queue_db.flag(task_id, error, tenant_id)
flag_update(t, error, tenant_id) ==
    IF Exists(t) /\ SameTenant(tasks[t].tenant, tenant_id)
    THEN [tasks EXCEPT ![t].status = "flagged", ![t].last_error = error]
    ELSE tasks
flag_history(t, tenant_id) ==
    IF Exists(t) /\ SameTenant(tasks[t].tenant, tenant_id)
    THEN [hist EXCEPT !.flagged[t] = TRUE]
    ELSE hist
flag(t, error, tenant_id) ==
    /\ tasks' = flag_update(t, error, tenant_id)
    /\ hist' = flag_history(t, tenant_id)

\* queue_db.complete and queue_db.flag called by a client of the module with
\* any task id and tenant
queue_complete(t, tenant_id) ==
    /\ complete(t, tenant_id)
    /\ hist' = [hist EXCEPT !.last = [op |-> "complete", id |-> t, tenant |-> tenant_id]]
    /\ UNCHANGED <<manifest, uploads, clock, incoming, ntasks, jobs, index, wk, wcfg, adminRows>>

queue_flag(t, error, tenant_id) ==
    /\ tasks' = flag_update(t, error, tenant_id)
    /\ hist' = [flag_history(t, tenant_id) EXCEPT
                    !.last = [op |-> "flag", id |-> t, tenant |-> tenant_id]]
    /\ UNCHANGED <<manifest, uploads, clock, incoming, ntasks, jobs, index, wk, wcfg, adminRows>>

\* queue_db.task_counts(tenant_id): SELECT status, COUNT(*) ... GROUP BY status,
\* over all rows for a falsy tenant_id; a status without rows counts 0
Statuses == {"pending", "leased", "done", "flagged"}
task_counts(rows, n, tenant_id) ==
    [st \in Statuses |->
        Cardinality({t \in 1..n : /\ rows[t].status = st
                                  /\ tenant_id = NULL \/ rows[t].tenant = tenant_id})]

\* worker.py 331
run_once_complete(w) ==
    /\ wk[w].pc = "complete"
    /\ complete(wk[w].row, tasks[wk[w].row].tenant)
    /\ wk' = [wk EXCEPT ![w].pc = "jobdone"]
    /\ UNCHANGED Others

\* worker.py 332-342: job done, callback, triggers, metrics; the iteration ends
run_once_done(w) ==
    /\ wk[w].pc = "jobdone"
    /\ jobs' = send_callback(set_status(wk[w].row, "done", NULL), wk[w].row)
    /\ wk' = [wk EXCEPT ![w] =
                [IdleWorker EXCEPT !.posts =
                    IF HasCallback(wk[w].row)
                    THEN wk[w].posts \cup {Request(wk[w].row, "done", NULL,
                                                   wcfg[w].webhook_token)}
                    ELSE wk[w].posts]]
    /\ UNCHANGED <<manifest, uploads, clock, incoming, ntasks, tasks, index, wcfg, adminRows, hist>>

\* worker.py 333-334 when _send_callback raises after its POST: the POST
\* failed and job_store.record_callback_status in the except branch (425-429)
\* raises, or record_callback_status raises in both branches (sqlite3 error
\* on the queue database).  The exception is inside the try block of run_once.
send_callback_raise(w) ==
    /\ wk[w].pc = "jobdone"
    /\ HasCallback(wk[w].row)
    /\ jobs' = set_status(wk[w].row, "done", NULL)
    /\ wk' = [wk EXCEPT ![w].pc = "flag", ![w].exc = OtherError,
                        ![w].posts = @ \cup {Request(wk[w].row, "done", NULL,
                                                     wcfg[w].webhook_token)}]
    /\ UNCHANGED <<manifest, uploads, clock, incoming, ntasks, tasks, index, wcfg, adminRows, hist>>

\* an exception raised by queue_db.complete (331) or after it (332-342):
\* control passes to the handler at 343
run_once_raise(w) ==
    /\ wk[w].pc \in {"complete", "jobdone"}
    /\ wk' = [wk EXCEPT ![w].pc = "flag", ![w].exc = OtherError]
    /\ UNCHANGED <<manifest, uploads, tasks, Others>>

\* worker.py 344
run_once_flag(w) ==
    /\ wk[w].pc = "flag"
    /\ flag(wk[w].row, wk[w].exc, tasks[wk[w].row].tenant)
    /\ wk' = [wk EXCEPT ![w].pc = "jobflag"]
    /\ UNCHANGED <<manifest, uploads, clock, incoming, ntasks, jobs, index, wcfg, adminRows>>

\* worker.py 345-350: job flagged, callback; the iteration ends
run_once_flagged(w) ==
    /\ wk[w].pc = "jobflag"
    /\ jobs' = send_callback(set_status(wk[w].row, "flagged", wk[w].exc), wk[w].row)
    /\ wk' = [wk EXCEPT ![w] =
                [IdleWorker EXCEPT !.posts =
                    IF HasCallback(wk[w].row)
                    THEN wk[w].posts \cup {Request(wk[w].row, "flagged", wk[w].exc,
                                                   wcfg[w].webhook_token)}
                    ELSE wk[w].posts]]
    /\ UNCHANGED <<manifest, uploads, clock, incoming, ntasks, tasks, index, wcfg, adminRows, hist>>

\* an exception raised inside the handler (worker.py 344-349) leaves run_once
\* and the loop of main
handler_raise(w) ==
    /\ wk[w].pc \in HandlerPcs
    /\ wk' = [wk EXCEPT ![w].pc = "terminated"]
    /\ UNCHANGED <<manifest, uploads, tasks, Others>>

\* the worker process is killed in the middle of an iteration
kill(w) ==
    /\ wk[w].pc \notin {"idle", "terminated", "off"}
    /\ hist.kills < MaxKills
    /\ hist' = [hist EXCEPT !.kills = @ + 1]
    /\ wk' = [wk EXCEPT ![w] = [IdleWorker EXCEPT !.pc = "terminated", !.now = wk[w].now]]
    /\ UNCHANGED <<manifest, uploads, clock, incoming, ntasks, tasks, jobs, index, wcfg, adminRows>>

\* worker.main is started again; a process start takes longer than the
\* resolution of the clock
main(w) ==
    /\ wk[w].pc = "terminated"
    /\ clock > wk[w].now
    /\ wk' = [wk EXCEPT ![w] = IdleWorker]
    /\ UNCHANGED <<manifest, uploads, tasks, Others>>

\* ---- API routes and admin script ----
ReasonText == "reason"

\* queue_db.get_task(task_id, tenant_id): a falsy tenant_id selects by id alone
get_task(t, tenant_id) ==
    Exists(t) /\ (tenant_id = NULL \/ tasks[t].tenant = tenant_id)

\* routes/tasks.py complete_task: 404 unless get_task finds the row
complete_task(t, tenant_id) ==
    /\ get_task(t, tenant_id)
    /\ complete(t, tenant_id)
    /\ UNCHANGED <<manifest, uploads, wk, Others>>

\* routes/tasks.py flag_task
flag_task(t, tenant_id) ==
    /\ get_task(t, tenant_id)
    /\ flag(t, ReasonText, tenant_id)
    /\ UNCHANGED <<manifest, uploads, wk, clock, incoming, ntasks, jobs, index, wcfg, adminRows>>

\* scripts/queue_admin.py rerun_flagged: rows = list_flagged(...)
rerun_flagged_list ==
    /\ adminRows = {}
    /\ adminRows' = {t \in 1..ntasks : tasks[t].status = "flagged"}
    /\ adminRows' # {}
    /\ UNCHANGED <<manifest, uploads, clock, incoming, ntasks, tasks, jobs, index, wk, wcfg, hist>>

\* queue_db.reset_to_pending(task_id): UPDATE ... SET status='pending',
\*   last_error=NULL WHERE id=?
reset_to_pending(t) ==
    /\ tasks' = [tasks EXCEPT ![t].status = "pending", ![t].last_error = NULL]
    /\ hist' = [hist EXCEPT !.flagged[t] = FALSE]

\* scripts/queue_admin.py rerun_flagged: one turn of the loop over rows
rerun_flagged_reset(t) ==
    /\ t \in adminRows
    /\ reset_to_pending(t)
    /\ adminRows' = adminRows \ {t}
    /\ UNCHANGED <<manifest, uploads, clock, incoming, ntasks, jobs, index, wk, wcfg>>

\* ---- steps of one worker process ----
Lease(w) ==
    \/ lease_one_now(w)
    \/ lease_one_claim(w)
    \/ lease_one_readback(w)
    \/ lease_one_scan(w)
    \/ lease_one_recycle(w)

Finish(w) ==
    \/ run_once_complete(w)
    \/ run_once_done(w)
    \/ run_once_flag(w)
    \/ run_once_flagged(w)

\* ---- two workers of tenant "a" (one of them also takes unscoped tasks) and
\* ---- one file, uploaded for tenant "a" or without a tenant
InitRace == InitWith(1, [w \in Workers |-> IF w = "w1" THEN Strict("a") ELSE Shared("a")])

NextRace ==
    \/ \E t \in Instants : Tick(t)
    \/ \E tn \in {"a", NULL} : upload_file(tn, "none", FALSE)
    \/ \E w \in Workers : Lease(w)
    \/ \E w \in Workers, stop \in {"validate", "none"} : run_once_try(w, stop, Document(TRUE))
    \/ \E w \in Workers : Finish(w)
    \/ \E w \in Workers : kill(w)
    \/ \E w \in Workers : main(w)

SpecRace == InitRace /\ [][NextRace]_vars

\* ---- one worker of tenant "a" that also takes unscoped tasks
OneWorker == [w \in Workers |-> IF w = "w1" THEN Shared("a") ELSE NotRunning]

\* ---- one worker, one uploaded file, the API routes and the admin script
InitOps == InitWith(1, OneWorker)

NextOps ==
    \/ \E t \in Instants : Tick(t)
    \/ \E tn \in {"a", NULL} : upload_file(tn, "none", FALSE)
    \/ \E w \in Workers : Lease(w)
    \/ \E w \in Workers, stop \in {"validate", "none"} : run_once_try(w, stop, Document(TRUE))
    \/ \E w \in Workers : Finish(w)
    \/ \E w \in Workers : run_once_raise(w)
    \/ \E w \in Workers : kill(w)
    \/ \E w \in Workers : main(w)
    \/ \E t \in TaskIds, tn \in {"a", NULL} : complete_task(t, tn)
    \/ \E t \in TaskIds, tn \in {"a", NULL} : flag_task(t, tn)
    \/ rerun_flagged_list
    \/ \E t \in TaskIds : rerun_flagged_reset(t)

SpecOps == InitOps /\ [][NextOps]_vars

\* ---- one worker, one file from an upload or from the incoming directory,
\* ---- every point of failure of the iteration, and the admin script
InitPipeline == InitWith(1, OneWorker)

NextPipeline ==
    \/ \E t \in Instants : Tick(t)
    \/ \E i \in IntentKinds : upload_file("a", i, FALSE)
    \/ \E dt \in {NULL, "a"} : scan_and_enqueue(dt)
    \/ \E w \in Workers : Lease(w)
    \/ \E w \in Workers, stop \in Statements, c \in BOOLEAN : run_once_try(w, stop, Document(c))
    \/ \E w \in Workers : Finish(w)
    \/ \E w \in Workers : run_once_raise(w)
    \/ \E w \in Workers : handler_raise(w)
    \/ \E w \in Workers : kill(w)
    \/ \E w \in Workers : main(w)
    \/ rerun_flagged_list
    \/ \E t \in TaskIds : rerun_flagged_reset(t)

SpecPipeline == InitPipeline /\ [][NextPipeline]_vars

\* ---- the two workers of tenant "a", two files uploaded for tenant "a", and
\* ---- a clock that is read before and after the visibility timeout has passed
InitOrder == InitWith(2, [w \in Workers |-> IF w = "w1" THEN Strict("a") ELSE Shared("a")])

NextOrder ==
    \/ Tick(VisibilityTimeout + 1)
    \/ upload_file("a", "none", FALSE)
    \/ \E w \in Workers : Lease(w)
    \/ \E w \in Workers : run_once_try(w, "none", Document(TRUE))
    \/ \E w \in Workers : run_once_complete(w)
    \/ \E w \in Workers : run_once_done(w)
    \/ \E w \in Workers : kill(w)
    \/ \E w \in Workers : main(w)

SpecOrder == InitOrder /\ [][NextOrder]_vars

\* ---- steps of a worker process that is kept running: the loop of main, and
\* ---- the process started again after it has ended
Run(w) ==
    \/ Lease(w)
    \/ \E stop \in Statements, c \in BOOLEAN : run_once_try(w, stop, Document(c))
    \/ Finish(w)
    \/ main(w)

\* ---- one worker that is kept running and one uploaded file whose intent is
\* ---- any valid JSON; time passes
InitCrash == InitWith(1, OneWorker)

NextCrash ==
    \/ \E t \in Instants : Tick(t)
    \/ \E i \in IntentKinds : upload_file("a", i, FALSE)
    \/ \E w \in Workers : Lease(w)
    \/ \E w \in Workers, stop \in {"validate", "none"} : run_once_try(w, stop, Document(TRUE))
    \/ \E w \in Workers : Finish(w)
    \/ \E w \in Workers : main(w)

\* fairness: time passes, and the `while True` loop of main (worker.py 371)
\* takes its next step whenever it has one
SpecCrash ==
    /\ InitCrash /\ [][NextCrash]_vars
    /\ WF_vars(\E t \in Instants : Tick(t))
    /\ \A w \in Workers : WF_vars(Run(w))

\* ---- one worker that is kept running, two uploaded files, crashes of the
\* ---- worker, the admin script, and a clock that is read before and after
\* ---- the visibility timeout has passed
InitReclaim == InitWith(2, OneWorker)

NextReclaim ==
    \/ Tick(VisibilityTimeout + 1)
    \/ upload_file("a", "none", FALSE)
    \/ \E w \in Workers : Lease(w)
    \/ \E w \in Workers, stop \in {"validate", "none"} : run_once_try(w, stop, Document(TRUE))
    \/ \E w \in Workers : Finish(w)
    \/ \E w \in Workers : kill(w)
    \/ \E w \in Workers : main(w)
    \/ rerun_flagged_list
    \/ \E t \in TaskIds : rerun_flagged_reset(t)

\* fairness: the loop of main takes its next step whenever it has one
SpecReclaim ==
    /\ InitReclaim /\ [][NextReclaim]_vars
    /\ \A w \in Workers : WF_vars(Run(w))

\* ---- one worker with model calls configured, each document processed once ----
Texts == [len : {20, 100}, words : SUBSET {"Treaty", "map"}, coords : BOOLEAN,
          ocr : {<<>>}, pages : {<<>>}]
LLMSettings == [summary_enabled : BOOLEAN, llm_forensic_enabled : BOOLEAN,
                llm_insights_enabled : BOOLEAN, llm_offline : BOOLEAN,
                llm_mode : {"sync", "batch"},
                prefilter_min_chars : {0, 50}, prefilter_keywords : {{}, {"treaty"}}]

InitEnrich ==
    \E s \in LLMSettings :
        InitWith(1, [w \in Workers |-> IF w = "w1" THEN [Shared("a") EXCEPT !.llm = s]
                                       ELSE NotRunning])

NextEnrich ==
    \/ upload_file("a", "none", FALSE)
    \/ \E w \in Workers : lease_one_now(w)
    \/ \E w \in Workers : lease_one_claim(w)
    \/ \E w \in Workers : lease_one_readback(w)
    \/ \E w \in Workers : lease_one_scan(w)
    \/ \E w \in Workers, stop \in StageNames, text \in Texts : run_once_try(w, stop, text)
    \/ \E w \in Workers : Finish(w)

SpecEnrich == InitEnrich /\ [][NextEnrich]_vars

\* ---- one worker, uploads with and without a webhook ----
WebhookTokens == {NULL, "s3cret"}
InitWebhook ==
    \E token \in WebhookTokens :
        InitWith(2, [w \in Workers |-> IF w = "w1"
                                       THEN [Shared("a") EXCEPT !.webhook_token = token]
                                       ELSE NotRunning])

NextWebhook ==
    \/ \E cb \in BOOLEAN : upload_file("a", "none", cb)
    \/ \E w \in Workers : lease_one_now(w)
    \/ \E w \in Workers : lease_one_claim(w)
    \/ \E w \in Workers : lease_one_readback(w)
    \/ \E w \in Workers : lease_one_scan(w)
    \/ \E w \in Workers, stop \in {"validate", "none"} : run_once_try(w, stop, Document(TRUE))
    \/ \E w \in Workers : Finish(w)
    \/ \E w \in Workers : send_callback_raise(w)

SpecWebhook == InitWebhook /\ [][NextWebhook]_vars

\* ---- one worker, jobs that own more than one task ----
Unscoped == [w \in Workers |-> IF w = "w1" THEN Shared(NULL) ELSE NotRunning]
InitJobs == InitWith(2, Unscoped)

NextJobs ==
    \/ upload_file(NULL, "none", FALSE)
    \/ \E j \in TaskIds : import_tasks_from_tsv(j)
    \/ \E w \in Workers : lease_one_now(w)
    \/ \E w \in Workers : lease_one_claim(w)
    \/ \E w \in Workers : lease_one_readback(w)
    \/ \E w \in Workers : lease_one_scan(w)
    \/ \E w \in Workers, stop \in {"validate", "none"}, c \in BOOLEAN :
            run_once_try(w, stop, Document(c))
    \/ \E w \in Workers : Finish(w)

SpecJobs == InitJobs /\ [][NextJobs]_vars

\* ---- one worker, scanned PDFs ----
InitOcr == InitWith(2, OneWorker)

NextOcr ==
    \/ upload_file("a", "none", FALSE)
    \/ \E w \in Workers : lease_one_now(w)
    \/ \E w \in Workers : lease_one_claim(w)
    \/ \E w \in Workers : lease_one_readback(w)
    \/ \E w \in Workers : lease_one_scan(w)
    \/ \E w \in Workers, stop \in {"validate", "none"}, results \in PageResults :
            run_once_try(w, stop, extract_text(results))
    \/ \E w \in Workers : Finish(w)

SpecOcr == InitOcr /\ [][NextOcr]_vars

\* ---- one worker, clients calling complete and flag with any id and tenant ----
InitCalls == InitWith(1, OneWorker)

NextCalls ==
    \/ \E tn \in TenantOrNull : upload_file(tn, "none", FALSE)
    \/ \E w \in Workers : lease_one_now(w)
    \/ \E w \in Workers : lease_one_claim(w)
    \/ \E w \in Workers : lease_one_readback(w)
    \/ \E w \in Workers : lease_one_scan(w)
    \/ \E w \in Workers, stop \in {"validate", "none"} : run_once_try(w, stop, Document(TRUE))
    \/ \E w \in Workers : Finish(w)
    \/ \E t \in TaskIds, tn \in TenantOrNull : queue_complete(t, tn)
    \/ \E t \in TaskIds, tn \in TenantOrNull : queue_flag(t, ReasonText, tn)

SpecCalls == InitCalls /\ [][NextCalls]_vars

\* ---- one worker doing the round trip of each upload ----
InitRound == InitWith(2, OneWorker)

NextRound ==
    \/ \E tn \in {"a", NULL} : upload_file(tn, "none", FALSE)
    \/ \E w \in Workers : lease_one_now(w)
    \/ \E w \in Workers : lease_one_claim(w)
    \/ \E w \in Workers : lease_one_readback(w)
    \/ \E w \in Workers : lease_one_scan(w)
    \/ \E w \in Workers, stop \in {"validate", "none"} : run_once_try(w, stop, Document(TRUE))
    \/ \E w \in Workers : Finish(w)

SpecRound == InitRound /\ [][NextRound]_vars

\* ---- two workers, leases lost to a crash and to a poisoned intent ----
InitRetry == InitWith(2, [w \in Workers |-> Shared("a")])

NextRetry ==
    \/ Tick(VisibilityTimeout + 1)
    \/ \E i \in IntentKinds : upload_file("a", i, FALSE)
    \/ \E w \in Workers : Lease(w)
    \/ \E w \in Workers : run_once_try(w, "none", Document(TRUE))
    \/ \E w \in Workers : run_once_complete(w)
    \/ \E w \in Workers : run_once_done(w)
    \/ \E w \in Workers : kill(w)
    \/ \E w \in Workers : main(w)

SpecRetry == InitRetry /\ [][NextRetry]_vars

\* ---- one worker, images read by the Hunyuan backend ----
InitVlm == InitWith(2, OneWorker)

NextVlm ==
    \/ upload_file("a", "none", FALSE)
    \/ \E w \in Workers : lease_one_now(w)
    \/ \E w \in Workers : lease_one_claim(w)
    \/ \E w \in Workers : lease_one_readback(w)
    \/ \E w \in Workers : lease_one_scan(w)
    \/ \E w \in Workers, stop \in {"validate", "none"}, env \in OcrEnvs,
          prompt \in CallerPrompts, reply \in OcrReplies :
            run_once_try(w, stop,
                [Document(FALSE) EXCEPT !.vlm = extract_text_with_hunyuan(env, prompt, reply)])
    \/ \E w \in Workers : Finish(w)

SpecVlm == InitVlm /\ [][NextVlm]_vars

\* ---- one worker, outputs of the Hunyuan model that repeat themselves ----
InitClean == InitWith(1, OneWorker)

NextClean ==
    \/ upload_file("a", "none", FALSE)
    \/ \E w \in Workers : lease_one_now(w)
    \/ \E w \in Workers : lease_one_claim(w)
    \/ \E w \in Workers : lease_one_readback(w)
    \/ \E w \in Workers : lease_one_scan(w)
    \/ \E w \in Workers, raw \in RawOutputs :
            run_once_try(w, "none",
                [Document(FALSE) EXCEPT !.chars = _clean_repeated_substrings(raw)])
    \/ \E w \in Workers : run_once_complete(w)
    \/ \E w \in Workers : run_once_done(w)

SpecClean == InitClean /\ [][NextClean]_vars

\* ---- one worker, documents with a coordinate pair, AOIs with holes ----
InitGeo == InitWith(1, OneWorker)

NextGeo ==
    \/ upload_file("a", "none", FALSE)
    \/ \E w \in Workers : lease_one_now(w)
    \/ \E w \in Workers : lease_one_claim(w)
    \/ \E w \in Workers : lease_one_readback(w)
    \/ \E w \in Workers : lease_one_scan(w)
    \/ \E w \in Workers, lat \in Coordinates, lon \in Coordinates, f \in Features :
            run_once_try(w, "none",
                [Document(TRUE) EXCEPT !.geo = geo_context(lat, lon, f)])
    \/ \E w \in Workers : run_once_complete(w)
    \/ \E w \in Workers : run_once_done(w)

SpecGeo == InitGeo /\ [][NextGeo]_vars

\* ---- one worker that moves processed files, and the admin script ----
Movers == [w \in Workers |->
            IF w = "w1" THEN [Shared("a") EXCEPT !.move_processed = TRUE] ELSE NotRunning]
InitFrame == InitWith(2, Movers)

NextFrame ==
    \/ \E t \in Instants : Tick(t)
    \/ upload_file("a", "none", FALSE)
    \/ \E w \in Workers : lease_one_now(w)
    \/ \E w \in Workers : lease_one_claim(w)
    \/ \E w \in Workers : lease_one_readback(w)
    \/ \E w \in Workers : lease_one_scan(w)
    \/ \E w \in Workers, stop \in {"validate", "none"} : run_once_try(w, stop, Document(TRUE))
    \/ \E w \in Workers : Finish(w)
    \/ rerun_flagged_list
    \/ \E t \in TaskIds : rerun_flagged_reset(t)

SpecFrame == InitFrame /\ [][NextFrame]_vars

\* ---- one worker, files from uploads and from the incoming directory ----
InitScan == InitWith(2, OneWorker)

NextScan ==
    \/ upload_file("a", "none", FALSE)
    \/ \E dt \in {NULL, "a"} : scan_and_enqueue(dt)
    \/ \E w \in Workers : lease_one_now(w)
    \/ \E w \in Workers : lease_one_claim(w)
    \/ \E w \in Workers : lease_one_readback(w)
    \/ \E w \in Workers : lease_one_scan(w)
    \/ \E w \in Workers, stop \in {"validate", "none"} : run_once_try(w, stop, Document(TRUE))
    \/ \E w \in Workers : Finish(w)

SpecScan == InitScan /\ [][NextScan]_vars

\* ---- two API server processes, the same bytes uploaded again and again ----
InitDedupe == InitWith(2, OneWorker)

NextDedupe ==
    \/ \E c \in Servers, tn \in {"a", NULL} : upload_file_find(c, tn)
    \/ \E c \in Servers : upload_file_store(c)
    \/ \E w \in Workers : lease_one_now(w)
    \/ \E w \in Workers : lease_one_claim(w)
    \/ \E w \in Workers : lease_one_readback(w)
    \/ \E w \in Workers : lease_one_scan(w)
    \/ \E w \in Workers, stop \in {"validate", "none"} : run_once_try(w, stop, Document(TRUE))
    \/ \E w \in Workers : Finish(w)

SpecDedupe == InitDedupe /\ [][NextDedupe]_vars

TypeOK ==
    /\ clock \in Instants
    /\ incoming \in 0..MaxTasks
    /\ ntasks \in 0..MaxTasks
    /\ \A w \in Workers : wk[w].row \in 0..ntasks

\* ---- properties ----
\* worker w has been handed task t by lease_one and has not yet released it
Handed(w, t) == wk[w].pc \in {"work", "complete", "flag"} /\ wk[w].row = t

\* C1: at most one active lease per task: once a caller has been handed a
\* task, no other caller is handed it at a later instant unless the first
\* lease is then older than the visibility timeout
OneActiveLease ==
    \A w \in Workers, v \in Workers, t \in TaskIds :
        (w # v /\ Handed(w, t) /\ Handed(v, t) /\ wk[w].now < wk[v].now)
            => wk[v].now - wk[w].now > VisibilityTimeout

\* C2: a lease older than the visibility timeout is flipped back to pending
\* exactly once however many callers see it expired: no recycling UPDATE
\* runs on a row that another caller has recycled (and maybe leased again)
\* since the scan of the same call selected it
RecycledOnce ==
    [][\A w \in Workers :
          (wk[w].pc = "recycle" /\ wk'[w].pc = "begin")
              => LET row == tasks[wk[w].exp] IN
                 /\ row.status # "pending"
                 /\ row.status = "leased" => row.leased_at = wk[w].expAt]_vars

\* C4: no automatic retry: lease_one never returns a task that has been
\* flagged and not been reset by reset_to_pending since
FlaggedNotLeased ==
    [][\A w \in Workers :
          (wk[w].pc = "readback" /\ wk'[w].row # 0) => ~hist.flagged[wk'[w].row]]_vars

\* C5: the status of a task changes only pending -> leased, leased -> done,
\* leased -> flagged, flagged -> pending (by reset_to_pending) and
\* leased -> pending (recycling of a lease older than the visibility timeout)
StatusMachine ==
    [][\A t \in TaskIds :
          LET old == tasks[t].status
              new == tasks'[t].status IN
          (old # new /\ old # "none") =>
              \/ old = "pending" /\ new = "leased"
              \/ old = "leased" /\ new \in {"done", "flagged"}
              \/ old = "flagged" /\ new = "pending" /\ t \in adminRows /\ t \notin adminRows'
              \/ /\ old = "leased" /\ new = "pending"
                 /\ \E w \in Workers : /\ wk[w].pc = "recycle" /\ wk[w].exp = t
                                       /\ tasks[t].leased_at < wk[w].now - VisibilityTimeout]_vars

\* C9: a caller with tenant filter F is handed only tasks of tenant F, or
\* also tasks without a tenant when allow_unscoped is set
TenantIsolation ==
    \A w \in Workers : \A t \in TaskIds :
        Handed(w, t) => \/ tasks[t].tenant = wcfg[w].tenant
                        \/ wcfg[w].allow /\ tasks[t].tenant = NULL

\* C7: an exception raised in an iteration after the lease leaves the task
\* flagged with the exception text as last_error and the owning job flagged
\* with the same text, and never ends the worker loop
ExceptionFlagsTask ==
    [][\A w \in Workers :
          /\ ~(wk'[w].pc = "terminated" /\ wk'[w].exc # NULL)
          /\ (wk[w].pc = "jobflag" /\ wk'[w].pc = "idle") =>
                LET t == wk[w].row IN
                /\ tasks'[t].status = "flagged"
                /\ tasks'[t].last_error = wk[w].exc
                /\ jobs[t].status # "none" =>
                      /\ jobs'[t].status = "flagged"
                      /\ jobs'[t].last_error = wk[w].exc]_vars

\* C8: the downstream writes are safe to repeat: a task never has more than
\* one search-index document, one set of geo points, or its content twice
\* in the artifact
WritesIdempotent ==
    \A t \in TaskIds : index[t].docs <= 1 /\ index[t].geo <= 1 /\ index[t].md <= 1

\* C10: tasks are claimed oldest-pending-first: the claim leases the earliest
\* enqueued pending task that matches the caller's filter, and lease_one does
\* not return a task enqueued after it while that task is pending
OldestFirst ==
    [][\A w \in Workers :
          LET S == PendingMatching(wcfg[w].tenant, wcfg[w].allow) IN
          /\ (wk[w].pc = "claim" /\ wk'[w].pc = "readback") =>
                IF S = {} THEN wk'[w].best = 0
                ELSE wk'[w].best \in S /\ \A u \in S : wk'[w].best <= u
          /\ (wk[w].pc = "readback" /\ wk'[w].row # 0) =>
                ~(wk[w].best \in S /\ wk[w].best < wk'[w].row)]_vars

\* worker w keeps calling lease_one
Polls(w) == wk[w].pc = "claim"

\* C3: every enqueued task eventually reaches a terminal status (done or
\* flagged) when a worker whose filter matches it keeps polling
EventuallyTerminal ==
    \A t \in TaskIds :
        ([]<>Polls("w1")) =>
            ((tasks[t].status # "none") ~> (tasks[t].status \in {"done", "flagged"}))

\* the lease of task t is older than the visibility timeout and the worker
\* that held it is gone
Dead(t) ==
    /\ tasks[t].status = "leased"
    /\ tasks[t].leased_at < clock - VisibilityTimeout
    /\ \A w \in Workers : wk[w].row # t

\* lease_one has returned task t to a caller
HandedAgain(t) == \E w \in Workers : wk[w].pc = "work" /\ wk[w].row = t

\* the call of worker w has found no pending task and looks for expired leases
Scans(w) == wk[w].pc = "scan"

\* C6 as stated: a task whose lease is older than the visibility timeout is
\* eventually leased again by a matching caller that keeps calling lease_one,
\* whatever else is enqueued
Reclaimed ==
    \A t \in TaskIds : ([]<>Polls("w1")) => (Dead(t) ~> HandedAgain(t))

\* C6 as amended: ... provided the calls of that caller keep reaching the scan
\* for expired leases, which they do only when they find no pending task
ReclaimedWhenIdle ==
    \A t \in TaskIds : ([]<>Scans("w1")) => (Dead(t) ~> HandedAgain(t))

\* C6 witness: a task that was leased before, whose worker was killed, is
\* handed out again
ReclaimedLease ==
    \E t \in TaskIds :
        /\ HandedAgain(t)
        /\ tasks[t].attempts >= 2
        /\ hist.kills > 0
        /\ jobs[t].status \in {"pending", "processing"}

\* the worker is past the try block of an iteration (or in its handler)
Tried(w) == wk[w].pc \in {"complete", "jobdone", "flag", "jobflag"}

\* C11: a failure in an enrichment sub-stage (summary, forensic analysis,
\* embeddings, place suggestions, insights, relevancy, geo points, geo tags)
\* never takes the run to the handler that flags the task: only extraction
\* and validation failures do.
EnrichmentNeverFlags ==
    \A w \in Workers :
        Tried(w) /\ wk[w].stage \in EnrichmentStages =>
            /\ wk[w].pc \notin HandlerPcs
            /\ tasks[wk[w].row].status # "flagged"

\* C12: at the moment a task is flagged for a validation error nothing has
\* been persisted for it: no staged text, no index document, no geo points,
\* no artifacts.
ValidationBeforePersistence ==
    \A w \in Workers :
        wk[w].pc \in HandlerPcs /\ wk[w].exc = ValidationError =>
            index[wk[w].row] = NoIndex

\* C16: for a text that fails the prefilter the run makes no paid model call
\* (no summary, no forensic analysis, no insight extraction).
PrefilterGatesPaidCalls ==
    \A w \in Workers :
        Tried(w) /\ wk[w].text # NoText /\ ~ should_use_llm(wk[w].text, wcfg[w].llm) =>
            wk[w].calls = {}

\* C13: webhook delivery never affects the terminal status: whatever happens
\* while the callback for a completed task is sent or its result recorded,
\* the task and its job stay done.
CallbackKeepsStatus ==
    \A w \in Workers :
        wk[w].pc # "idle" /\ (\E r \in wk[w].posts : r.status = "done") =>
            /\ tasks[wk[w].row].status = "done"
            /\ jobs[tasks[wk[w].row].job_id].status = "done"

\* C14: a processing run sends at most one callback POST, never a 'done' and
\* a 'flagged' one for the same task.
OneCallbackPerRun ==
    \A w \in Workers : Cardinality(wk[w].posts) <= 1

\* the tasks a job owns
TasksOf(j) == {t \in 1..ntasks : tasks[t].job_id = j}

\* C15: once all the tasks of a job are terminal (and no worker is still
\* finishing one of them) the job is flagged if any of its tasks is flagged
\* and done only if all of them are done, whatever the order they ended in.
JobMirrorsTasks ==
    \A j \in TaskIds :
        (/\ jobs[j].status # "none"
         /\ TasksOf(j) # {}
         /\ \A t \in TasksOf(j) : tasks[t].status \in {"done", "flagged"}
         /\ \A w \in Workers : wk[w].row \notin TasksOf(j))
        => /\ (\E t \in TasksOf(j) : tasks[t].status = "flagged") => jobs[j].status = "flagged"
           /\ jobs[j].status = "done" => \A t \in TasksOf(j) : tasks[t].status = "done"

\* C17: with a webhook secret configured, a receiver that recomputes the
\* HMAC-SHA256 over the raw body it receives accepts every callback: the
\* signature header is computed over exactly the bytes transmitted.
SignatureVerifies ==
    \A w \in Workers : \A r \in wk[w].posts :
        wcfg[w].webhook_token # NULL =>
            verify_signature(r.body, wcfg[w].webhook_token, r.signature)

\* the combined output keeps every page at its position: the text of a page
\* whose OCR succeeded, a placeholder marker for a page whose OCR failed
PagesKept(results, pages) ==
    /\ Len(pages) = Len(results)
    /\ \A i \in 1..Len(results) :
            pages[i] = IF results[i] = "text" THEN [kind |-> "text", page |-> i]
                       ELSE [kind |-> "[Page OCR failed]", page |-> i]

\* C18: in multi-page OCR a page whose OCR fails is replaced by a placeholder
\* marker at its position and the other pages are still in the combined
\* output, in the worker's extraction and in the parallel OCR script.
FailedPageReplaced ==
    /\ \A results \in PageResults : PagesKept(results, ocr_pdf_parallel(results))
    /\ \A w \in Workers :
            wk[w].text.ocr # <<>> => PagesKept(wk[w].text.ocr, wk[w].text.pages)

\* C19: complete(task_id, tenant) and flag(task_id, error, tenant) change no
\* task row (and end normally) when task_id does not exist or the tenant
\* argument differs from the tenant of the row, NULL against non-NULL
\* included.
NoOpOnMismatch ==
    [][\A t \in TaskIds, tn \in TenantOrNull :
          /\ queue_complete(t, tn) \/ queue_flag(t, ReasonText, tn)
          /\ ~ Exists(t) \/ tasks[t].tenant # tn
          => tasks' = tasks]_vars

\* a client has called complete or flag with the id of a row and a tenant
\* that is not the row's, one of the two being NULL, and the row is still
\* waiting or held
MismatchedCall ==
    /\ hist.last.op \in {"complete", "flag"}
    /\ Exists(hist.last.id)
    /\ tasks[hist.last.id].tenant # hist.last.tenant
    /\ NULL \in {tasks[hist.last.id].tenant, hist.last.tenant}
    /\ tasks[hist.last.id].status \in {"pending", "leased"}

\* the change of task_counts over a step, for the rows of tenant_id
CountsMove(tenant_id, from, to) ==
    LET before == task_counts(tasks, ntasks, tenant_id)
        after == task_counts(tasks', ntasks', tenant_id) IN
    \A st \in Statuses :
        after[st] = before[st] + (IF st = to THEN 1 ELSE 0) - (IF st = from THEN 1 ELSE 0)

\* C20: over the round trip enqueue, lease_one returning the task, complete,
\* task_counts read after each step shows the transition (pending +1; pending
\* -1 and leased +1; leased -1 and done +1) and the task ends neither pending
\* nor leased.
RoundTripCounts ==
    [][\A w \in Workers :
          /\ ntasks' = ntasks + 1 =>
                \A tn \in {NULL, tasks'[ntasks'].tenant} : CountsMove(tn, "none", "pending")
          /\ lease_one_claim(w) /\ wk'[w].best # 0 =>
                \A tn \in {NULL, tasks[wk'[w].best].tenant} : CountsMove(tn, "pending", "leased")
          /\ run_once_complete(w) =>
                /\ \A tn \in {NULL, tasks[wk[w].row].tenant} : CountsMove(tn, "leased", "done")
                /\ tasks'[wk[w].row].status \notin {"pending", "leased"}]_vars

\* a task that went through the round trip
RoundTripDone ==
    \E t \in 1..ntasks :
        tasks[t].status = "done" /\ tasks[t].attempts = 1 /\ jobs[t].status = "done"

\* C21: one call of lease_one retries its claim a bounded number of times,
\* the one retry after the one lease it recycles, however many expired leases
\* there are and however often another caller takes the task it recycled.
BoundedRetries ==
    \A w \in Workers : wk[w].depth <= 1

\* the requests of the OCR call of worker w's iteration
Requests(w) == wk[w].text.vlm.requests
Passes(w, pass) == {i \in 1..Len(Requests(w)) : Requests(w)[i].pass = pass}

\* C22: whenever the scout pass has run and named entities, the
\* transcription request that follows carries a prompt with the scouted
\* entities as its hint, on the HTTP and on the in-process backend
TranscribeCarriesHint ==
    \A w \in Workers :
        (Passes(w, "scout") # {} /\ wk[w].text.vlm.entities # "")
            => \A i \in Passes(w, "transcribe") :
                    /\ Requests(w)[i].prompt.template = "contextual"
                    /\ Requests(w)[i].prompt.context = wk[w].text.vlm.entities

\* C23: every request of the VLM backend decodes greedily: temperature 0,
\* top-k 1 and repetition penalty 1.0 (a parameter the request leaves out
\* counts as conforming)
GreedyDecoding ==
    \A w \in Workers : \A i \in 1..Len(Requests(w)) :
        /\ Requests(w)[i].temperature = 0
        /\ Requests(w)[i].top_k \in {1, Unset}
        /\ Requests(w)[i].repetition_penalty \in {100, Unset}


\* C24: the repetition cleanup is idempotent: cleaning a text that the
\* cleanup has returned changes nothing
CleanupIdempotent ==
    \A w \in Workers :
        _clean_repeated_substrings(wk[w].text.chars) = wk[w].text.chars

\* the rings of the polygons of a feature
PolygonsOf(feature) ==
    IF feature.type = "Polygon" THEN <<feature.coordinates>>
    ELSE IF feature.type = "MultiPolygon" THEN feature.coordinates
    ELSE <<>>

\* C25: AOI membership supports holes: a point inside an interior ring of
\* a polygon of the AOI is reported as not inside the AOI, a point inside
\* the exterior ring and outside every hole as inside
MembershipSupportsHoles ==
    \A w \in Workers :
        LET g == wk[w].text.geo
            polys == PolygonsOf(g.feature)
            InRing(k, r) == _point_in_ring(g.lat, g.lon, polys[k][r])
        IN \A k \in 1..Len(polys) :
            /\ (\E r \in 2..Len(polys[k]) : InRing(k, r)) => ~g.inside
            /\ (InRing(k, 1) /\ \A r \in 2..Len(polys[k]) : ~InRing(k, r)) => g.inside

\* the columns that lease_one, complete, flag and reset_to_pending write
LifecycleColumns == {"status", "leased_at", "attempts", "last_error"}

\* C26: a task row is mutated only by lease, complete, flag and reset and
\* is never deleted: no step writes a column of an existing row that these
\* four do not write, and the number of rows never decreases
OnlyLifecycleWrites ==
    [][/\ ntasks' >= ntasks
       /\ \A t \in 1..ntasks :
            \A c \in DOMAIN NoRow \ LifecycleColumns : tasks'[t][c] = tasks[t][c]]_vars

\* C27: done is absorbing: no step of a worker changes the status of a task
\* that is done
DoneAbsorbing ==
    [][\A t \in 1..ntasks : tasks[t].status = "done" => tasks'[t].status = "done"]_vars

\* no worker is in the middle of an iteration on task t
Settled(t) ==
    \A w \in Workers : wk[w].pc \in {"idle", "off", "terminated"} \/ wk[w].row # t

\* C28: whenever a task with a job has ended done or flagged, its job has
\* the same terminal status, whether the pair was created by the upload
\* route or by the intake scanner
JobFollowsTask ==
    \A t \in 1..ntasks :
        (tasks[t].job_id # 0 /\ tasks[t].status \in {"done", "flagged"} /\ Settled(t))
            => jobs[tasks[t].job_id].status = tasks[t].status

\* the tasks enqueued by uploads of the given bytes for the given tenant
TasksOfContent(sha256, tenant_id) ==
    {t \in 1..ntasks : hist.sha256[t] = sha256 /\ tasks[t].tenant = tenant_id}

\* C29: with dedupe on, the uploads of the same bytes for the same tenant
\* (or for none), however many and however interleaved, leave at most one
\* manifest row for (sha256, tenant) and at most one task
DedupeOnce ==
    \A tn \in {"a", NULL} :
        /\ Cardinality(ManifestRows(SameContent, tn)) <= 1
        /\ Cardinality(TasksOfContent(SameContent, tn)) <= 1

\* C30: the secret that keys the HMAC of the webhook signature is never
\* itself sent in a callback request, neither in a header nor in the body
SecretNotTransmitted ==
    \A w \in Workers : \A request \in wk[w].posts :
        wcfg[w].webhook_token # NULL =>
            /\ request.token # wcfg[w].webhook_token
            /\ \A i \in 1..Len(request.body) : request.body[i] # wcfg[w].webhook_token

====
